---- MODULE Spec2Model ----
(***************************************************************************)
(* Model of elonet-dl.py: main() fetches a page, extracts a video source   *)
(* URL, and download_video() resolves the HLS playlist, builds the list of *)
(* .ts segments and streams them into an ffmpeg child process.             *)
(*                                                                         *)
(* Strings are modelled by the structure the code looks at:                *)
(*   - a URL is a record  [dir, file, ext, query, frag];                   *)
(*   - a playlist text is the sequence of its lines (text.split("\n"));    *)
(*     a line is a record [k, dir, file, ext, attrs] with k one of         *)
(*     "blank", "tag" (#EXT-X-STREAM-INF:...), "comment" (any other line   *)
(*     starting with '#') and "uri";                                       *)
(*   - the attribute list of a tag is the sequence of its comma-separated  *)
(*     items, each item the sequence of its '='-separated parts.           *)
(* Lines carry no surrounding whitespace other than a blank line.          *)
(*                                                                         *)
(* A local variable of download_video is represented from its assignment   *)
(* to its last read; all locals are dropped when the function returns.     *)
(* The servers and the muxer are the environment: every response is        *)
(* chosen when the request is made.                                        *)
(***************************************************************************)
EXTENDS Integers, Sequences, FiniteSets, TLC

VARIABLES
    pc,                \* position in main / download_video
    url,               \* download_video: url
    resp,              \* download_video: resp (the embed page)
    playlist_resp,     \* download_video: playlist_resp
    best_quality_url,  \* download_video: best_quality_url (NoUrl = None)
    best_bandwidth,    \* download_video: best_bandwidth
    ts_resp,           \* download_video: ts_resp
    ts_files,          \* download_video: ts_files
    seg_status,        \* outcome of each segment fetch made so far, in order
    written,           \* indices of the segments whose body went to proc.stdin
    proc,              \* the ffmpeg child: "none", "failed", "running", "exited"
    stdin,             \* proc.stdin: "none", "open", "closed"
    file,              \* the output path: "absent", "empty", "nonempty"
    error,             \* message of the exception raised ("" = none)
    success,           \* value returned by download_video
    exit_code,         \* value returned by main (-1 = not returned yet)
    net                \* log of the requests.get calls, in order

vars == << pc, url, resp, playlist_resp, best_quality_url, best_bandwidth,
           ts_resp, ts_files, seg_status, written, proc, stdin, file, error,
           success, exit_code, net >>

----------------------------------------------------------------------------
(* Bounds *)

MaxLines == 3        \* lines of a free-form playlist text
MaxVariants == 2     \* (tag, uri) pairs of a well-formed master playlist
MaxTokens == 2       \* tokens of an embed page body
MaxSources == 2      \* entries of a page's video sources JSON

SeqUpTo(S, n) == UNION { [1..k -> S] : k \in 0..n }

----------------------------------------------------------------------------
(* URLs *)

NoUrl == [dir |-> <<>>, file |-> "", ext |-> "", query |-> "", frag |-> ""]

MkUrl(d, f, e, q) == [dir |-> d, file |-> f, ext |-> e, query |-> q, frag |-> ""]

\* "https://cdn/master.m3u8"
DirectUrl == MkUrl(<<"cdn">>, "master", "m3u8", "")
\* "https://cdn/master.m3u8?t=1"
QueryUrl == MkUrl(<<"cdn">>, "master", "m3u8", "t=1")
\* "https://player/embed/42"
EmbedUrl == MkUrl(<<"player", "embed">>, "42", "", "")
\* "https://cdn/clip.mp4"
Mp4Url == MkUrl(<<"cdn">>, "clip", "mp4", "")

\* str.endswith('.' + e) on a URL string
UrlEndsWith(u, e) == u.frag = "" /\ u.query = "" /\ u.ext = e

----------------------------------------------------------------------------
(* Playlist lines *)

MkLine(k, d, f, e, a) == [k |-> k, dir |-> d, file |-> f, ext |-> e, attrs |-> a]

BlankLine == MkLine("blank", <<>>, "", "", <<>>)
\* "#EXTINF:4,x.ts"
CommentTsLine == MkLine("comment", <<>>, "EXTINF:4,x", "ts", <<>>)
UriLine(d, f, e) == MkLine("uri", d, f, e, <<>>)
TagLine(a) == MkLine("tag", <<>>, "EXT-X-STREAM-INF", "", a)

\* attribute lists after "#EXT-X-STREAM-INF:"
TagAttrs ==
    { << <<"BANDWIDTH", "500">> >>,                                \* BANDWIDTH=500
      << <<"BANDWIDTH", "2000">>, <<"CODECS", "\"avc1">>, <<"mp4a\"">> >>,
                                                  \* BANDWIDTH=2000,CODECS="avc1,mp4a"
      << <<"RESOLUTION", "640x360">> >>,                           \* RESOLUTION=640x360
      << <<"BANDWIDTH", "abc">> >>,                                \* BANDWIDTH=abc
      << <<"BANDWIDTH", "500", "x">> >> }                          \* BANDWIDTH=500=x

TagLines == { TagLine(a) : a \in TagAttrs }
M3u8Lines == { UriLine(<<>>, "v1", "m3u8"), UriLine(<<"hi">>, "v2", "m3u8") }
TsLines == { UriLine(<<>>, "a", "ts"), UriLine(<<>>, "b", "ts") }

Lines == TagLines \cup M3u8Lines \cup TsLines \cup {CommentTsLine, BlankLine}

\* a master playlist in which every variant line directly follows its own tag
PairText(f) ==
    [ i \in 1..(2 * Len(f)) |->
        IF i % 2 = 1 THEN f[(i + 1) \div 2][1] ELSE f[i \div 2][2] ]

MasterTexts ==
    { PairText(f) : f \in UNION { [1..n -> TagLines \X M3u8Lines] : n \in 1..MaxVariants } }

PlaylistTexts == SeqUpTo(Lines, MaxLines) \cup MasterTexts

Statuses == {200, 404}

NoResp == [status |-> 0, text |-> <<>>]

----------------------------------------------------------------------------
(* String operations of the playlist code *)

\* line.strip() of a line without surrounding whitespace; a blank line -> ""
strip(line) == line

\* "not line or line.startswith('#')" (line 132)
IsSkipped(line) == line.k = "blank" \/ line.k \in {"tag", "comment"}

\* str.endswith('.' + e) on a line
LineEndsWith(line, e) == line.k \in {"uri", "comment"} /\ line.ext = e

\* prev_line.startswith('#EXT-X-STREAM-INF:') (line 140)
IsStreamInf(line) == line.k = "tag"

\* urllib.parse.urljoin(base, line): a relative path replaces the last path
\* component of base and drops its query; a reference starting with '#'
\* only sets the fragment of base
urljoin(base, line) ==
    IF line.k = "uri"
    THEN [dir |-> base.dir \o line.dir, file |-> line.file, ext |-> line.ext,
          query |-> "", frag |-> ""]
    ELSE IF line.k = "blank" THEN base
    ELSE [base EXCEPT !.frag = line.file]

\* int(s): the decimal strings of the model; anything else raises ValueError
IsNumeral(s) == s \in {"0", "500", "2000"}
IntOf(s) == CASE s = "500" -> 500 [] s = "2000" -> 2000 [] OTHER -> 0

Max(S) == CHOOSE x \in S : \A y \in S : y <= x

\* lines 142-143: dict(attr.split('=') for attr in ... if '=' in attr), then
\* int(attrs.get('BANDWIDTH', 0)).  [raised, value]
ParseBandwidth(tag) ==
    LET kv == SelectSeq(tag.attrs, LAMBDA a : Len(a) >= 2)
        keys == { i \in 1..Len(kv) : kv[i][1] = "BANDWIDTH" }
    IN  IF \E i \in 1..Len(kv) : Len(kv[i]) # 2
        THEN [raised |-> TRUE, value |-> 0]      \* dict(): element has length 3
        ELSE IF keys = {} THEN [raised |-> FALSE, value |-> 0]
        ELSE IF IsNumeral(kv[Max(keys)][2])
             THEN [raised |-> FALSE, value |-> IntOf(kv[Max(keys)][2])]
             ELSE [raised |-> TRUE, value |-> 0] \* int(): invalid literal

\* lines 138-144: for prev_line in reversed(text.split("\n")): the first tag
\* met scanning the whole text from its end.  0 = none (bandwidth stays None)
StreamInfIndex(text, i) ==
    LET tags == { j \in 1..Len(text) : IsStreamInf(text[j]) }
    IN  IF tags = {} THEN 0 ELSE Max(tags)

\* lines 138-144 for the variant line at index i.  [raised, value]
BandwidthFor(text, i) ==
    IF StreamInfIndex(text, i) = 0
    THEN [raised |-> FALSE, value |-> 0]
    ELSE ParseBandwidth(text[StreamInfIndex(text, i)])

\* lines 127-148: the scan of the fetched playlist, from line i on.
\* [raised, url, bw]
RECURSIVE ScanFrom(_, _, _, _, _)
ScanFrom(text, base, i, best_url, best_bw) ==
    IF i > Len(text) THEN [raised |-> FALSE, url |-> best_url, bw |-> best_bw]
    ELSE IF IsSkipped(strip(text[i])) \/ ~LineEndsWith(strip(text[i]), "m3u8")
    THEN ScanFrom(text, base, i + 1, best_url, best_bw)
    ELSE LET b == BandwidthFor(text, i)
         IN  IF b.raised THEN [raised |-> TRUE, url |-> best_url, bw |-> best_bw]
             ELSE IF b.value # 0 /\ b.value > best_bw
             THEN ScanFrom(text, base, i + 1, urljoin(base, strip(text[i])), b.value)
             ELSE ScanFrom(text, base, i + 1, best_url, best_bw)

Scan(text, base) == ScanFrom(text, base, 1, NoUrl, 0)

\* lines 161-165: the list comprehension building ts_files
RECURSIVE TsFiles(_, _)
TsFiles(text, base) ==
    IF text = <<>> THEN <<>>
    ELSE IF LineEndsWith(strip(Head(text)), "ts")
         THEN <<urljoin(base, Head(text))>> \o TsFiles(Tail(text), base)
         ELSE TsFiles(Tail(text), base)

\* line 162: best_quality_url or url
SegmentBase(bq, u) == IF bq # NoUrl THEN bq ELSE u

\* faulty variant: the emptiness test never fires
NoSegments_Never(files) == FALSE

\* line 167: not ts_files
NoSegments(files) == files = <<>>

----------------------------------------------------------------------------
(* Embed page *)

\* a body is a sequence of tokens separated by whitespace or quotes; a token
\* matches r'https?://[^\s\'"]+\.m3u8[^\s\'"]*' or it does not
TextToken == [match |-> FALSE, url |-> NoUrl]
Mp4Token == [match |-> FALSE, url |-> Mp4Url]
Tokens == { TextToken, Mp4Token,
            [match |-> TRUE, url |-> DirectUrl],
            [match |-> TRUE, url |-> QueryUrl] }

EmbedBodies == SeqUpTo(Tokens, MaxTokens)

\* faulty variant: the rightmost match
FirstMatch_Last(body) ==
    LET ms == { i \in 1..Len(body) : body[i].match }
    IN  IF ms = {} THEN 0 ELSE CHOOSE i \in ms : \A j \in ms : i >= j

\* line 116: re.search, the leftmost match.  0 = None
FirstMatch(body) ==
    LET ms == { i \in 1..Len(body) : body[i].match }
    IN  IF ms = {} THEN 0 ELSE CHOOSE i \in ms : \A j \in ms : i <= j

\* line 111: url.endswith('.m3u8')
IsDirectPlaylist(u) == UrlEndsWith(u, "m3u8")

----------------------------------------------------------------------------
(* Site pages *)

SiteUrls == {"elonetplus.fi/video/1", "elonet.finna.fi/Record/1", "example.org/1"}

\* lines 97-105
determine_site_type(u) ==
    IF u = "elonetplus.fi/video/1" THEN "elonetplus"
    ELSE IF u = "elonet.finna.fi/Record/1" THEN "finna"
    ELSE "elonetplus"

Sources == { [type |-> "video/mp4", src |-> Mp4Url],
             [type |-> "application/x-mpegURL", src |-> DirectUrl],
             [type |-> "application/x-mpegURL", src |-> EmbedUrl] }

\* what the extractors look at in the parsed page
Pages ==
    { [has_sources |-> h, sources |-> s, has_finna |-> f] :
        h \in BOOLEAN, s \in SeqUpTo(Sources, MaxSources), f \in BOOLEAN }

HlsSources(sources) == SelectSeq(sources, LAMBDA s : s.type = "application/x-mpegURL")

\* lines 20-42.  [raised, url]
process_elonetplus(page) ==
    IF ~page.has_sources THEN [raised |-> TRUE, url |-> NoUrl]
    ELSE IF HlsSources(page.sources) = <<>> THEN [raised |-> TRUE, url |-> NoUrl]
    ELSE [raised |-> FALSE, url |-> HlsSources(page.sources)[1].src]

\* lines 44-95: the data-sources probes, then the <finna-video> tag, whose
\* source attribute is the embed page.  [raised, url]
process_finna(page) ==
    IF page.has_sources /\ HlsSources(page.sources) # <<>>
    THEN [raised |-> FALSE, url |-> HlsSources(page.sources)[1].src]
    ELSE IF page.has_finna THEN [raised |-> FALSE, url |-> EmbedUrl]
    ELSE [raised |-> TRUE, url |-> NoUrl]

\* lines 210-213
Extract(u, page) ==
    IF determine_site_type(u) = "elonetplus"
    THEN process_elonetplus(page) ELSE process_finna(page)

\* faulty variant: the result of download_video is ignored
ExitCode_Zero(ok) == 0

\* line 220
ExitCode(ok) == IF ok THEN 0 ELSE 1

----------------------------------------------------------------------------
(* Muxer and output file *)

\* faulty variant: every response body is written
ShouldWrite_Always(status) == TRUE

\* line 177
ShouldWrite(status) == status = 200

\* faulty variant: the process is not waited for
WaitProc_NoWait(p) == p

\* Popen.__exit__: self.wait()
WaitProc(p) == "exited"

\* Popen.__exit__: self.stdin.close()
CloseStdin(s) == "closed"

\* line 182: os.path.exists(name) and os.path.getsize(name) > 0
OutputOk(f) == f = "nonempty"

\* what "ffmpeg -y -i - -c copy name" can leave at the output path once it
\* has exited: without input it fails before opening the output
MuxerOutcomes(f, w) ==
    IF w = <<>> THEN {f} ELSE {f, "empty", "nonempty"}

----------------------------------------------------------------------------
(* Requests *)

Req(kind, u) == [kind |-> kind, url |-> u]

Count(kind) == Cardinality({ i \in 1..Len(net) : net[i].kind = kind })

\* the locals of download_video, dropped when it returns
DropLocals ==
    /\ url' = NoUrl
    /\ resp' = NoResp
    /\ playlist_resp' = NoResp
    /\ best_quality_url' = NoUrl
    /\ best_bandwidth' = 0
    /\ ts_resp' = NoResp
    /\ ts_files' = <<>>

\* an exception raised inside the try block of download_video, outside the
\* with block: control goes to the handler at line 188
Raise(msg) ==
    /\ error' = msg
    /\ pc' = "except"

----------------------------------------------------------------------------
Init ==
    /\ pc = "main"
    /\ url = NoUrl
    /\ resp = NoResp
    /\ playlist_resp = NoResp
    /\ best_quality_url = NoUrl
    /\ best_bandwidth = 0
    /\ ts_resp = NoResp
    /\ ts_files = <<>>
    /\ seg_status = <<>>
    /\ written = <<>>
    /\ proc = "none"
    /\ stdin = "none"
    /\ file \in {"absent", "empty", "nonempty"}
    /\ error = ""
    /\ success = FALSE
    /\ exit_code = -1
    /\ net = <<>>

\* main, lines 194-219: fetch the page, extract the source, call download_video
main_page ==
    /\ pc = "main"
    /\ net' = Append(net, Req("page", NoUrl))
    /\ \/ \* requests.get raises: except Exception, line 225
          /\ exit_code' = 1 /\ pc' = "exit" /\ error' = "Unexpected error"
          /\ UNCHANGED url
       \/ \* line 200: status_code != 200
          /\ exit_code' = 1 /\ pc' = "exit" /\ error' = "Failed to retrieve the page"
          /\ UNCHANGED url
       \/ \E site_url \in SiteUrls, page \in Pages :
            LET r == Extract(site_url, page)
            IN  IF r.raised
                THEN /\ exit_code' = 1 /\ pc' = "exit"
                     /\ error' = "Error processing URL"
                     /\ UNCHANGED url
                ELSE /\ url' = r.url /\ pc' = "resolve"
                     /\ UNCHANGED << exit_code, error >>
    /\ UNCHANGED << resp, playlist_resp, best_quality_url, best_bandwidth,
                    ts_resp, ts_files, seg_status, written, proc, stdin, file,
                    success >>

\* download_video, lines 110-114: a direct playlist URL is kept, anything
\* else is fetched as an embed page
ResolveSource ==
    /\ pc = "resolve"
    /\ IF IsDirectPlaylist(url)
       THEN /\ pc' = "playlist"
            /\ UNCHANGED << resp, error, net >>
       ELSE /\ net' = Append(net, Req("embed", url))
            /\ \/ Raise("Connection error") /\ UNCHANGED resp
               \/ /\ Raise("Failed to retrieve embed page")
                  /\ resp' = [status |-> 404, text |-> <<>>]
               \/ \E body \in EmbedBodies :
                    /\ resp' = [status |-> 200, text |-> body]
                    /\ pc' = "match"
                    /\ UNCHANGED error
    /\ UNCHANGED << url, playlist_resp, best_quality_url, best_bandwidth,
                    ts_resp, ts_files, seg_status, written, proc, stdin, file,
                    success, exit_code >>

\* download_video, lines 115-119: the first .m3u8 URL of the embed page
\* becomes url; resp is not read afterwards
MatchEmbed ==
    /\ pc = "match"
    /\ IF FirstMatch(resp.text) = 0
       THEN /\ Raise("Could not find m3u8 playlist URL in embed page")
            /\ UNCHANGED << url, resp >>
       ELSE /\ url' = resp.text[FirstMatch(resp.text)].url
            /\ resp' = NoResp
            /\ pc' = "playlist"
            /\ UNCHANGED error
    /\ UNCHANGED << playlist_resp, best_quality_url, best_bandwidth, ts_resp,
                    ts_files, seg_status, written, proc, stdin, file, success,
                    exit_code, net >>

\* download_video, lines 122-124: fetch the playlist
FetchPlaylist ==
    /\ pc = "playlist"
    /\ net' = Append(net, Req("playlist", url))
    /\ \/ Raise("Connection error") /\ UNCHANGED playlist_resp
       \/ /\ Raise("Failed to retrieve playlist")
          /\ playlist_resp' = [status |-> 404, text |-> <<>>]
       \/ \E text \in PlaylistTexts :
            /\ playlist_resp' = [status |-> 200, text |-> text]
            /\ pc' = "scan"
            /\ UNCHANGED error
    /\ UNCHANGED << resp, url, best_quality_url, best_bandwidth, ts_resp, ts_files,
                    seg_status, written, proc, stdin, file, success, exit_code >>

\* download_video, lines 126-148: scan the playlist for the best variant.
\* Once a variant is chosen playlist_resp is not read again (line 159 is the
\* other branch).
ScanPlaylist ==
    /\ pc = "scan"
    /\ LET r == Scan(playlist_resp.text, url)
       IN  /\ best_quality_url' = r.url
           /\ best_bandwidth' = r.bw
           /\ IF r.raised
              THEN Raise("ValueError in bandwidth parsing") /\ UNCHANGED playlist_resp
              ELSE /\ pc' = "stream"
                   /\ playlist_resp' = IF r.url # NoUrl THEN NoResp ELSE playlist_resp
                   /\ UNCHANGED error
    /\ UNCHANGED << resp, url, ts_resp, ts_files, seg_status, written, proc, stdin,
                    file, success, exit_code, net >>

\* download_video, lines 150-168: fetch the chosen variant or keep the fetched
\* text, then build ts_files.  playlist_resp is not read after line 159,
\* best_bandwidth not after line 151.
SelectStream ==
    /\ pc = "stream"
    /\ playlist_resp' = NoResp
    /\ best_bandwidth' = 0
    /\ IF best_quality_url # NoUrl
       THEN /\ net' = Append(net, Req("variant", best_quality_url))
            /\ \/ Raise("Connection error") /\ UNCHANGED << ts_resp, ts_files >>
               \/ /\ Raise("Failed to retrieve TS playlist")
                  /\ ts_resp' = [status |-> 404, text |-> <<>>]
                  /\ UNCHANGED ts_files
               \/ \E text \in PlaylistTexts :
                    /\ ts_resp' = [status |-> 200, text |-> text]
                    /\ ts_files' = TsFiles(text, SegmentBase(best_quality_url, url))
                    /\ IF NoSegments(ts_files')
                       THEN Raise("No TS files found in playlist")
                       ELSE pc' = "launch" /\ UNCHANGED error
       ELSE /\ ts_resp' = playlist_resp
            /\ ts_files' = TsFiles(playlist_resp.text, SegmentBase(best_quality_url, url))
            /\ IF NoSegments(ts_files')
               THEN Raise("No TS files found in playlist")
               ELSE pc' = "launch" /\ UNCHANGED error
            /\ UNCHANGED net
    /\ UNCHANGED << resp, url, best_quality_url, seg_status, written, proc, stdin,
                    file, success, exit_code >>

\* download_video, lines 171-172: Popen([*cmd, name], stdin=PIPE)
LaunchMuxer ==
    /\ pc = "launch"
    /\ \/ /\ proc' = "running" /\ stdin' = "open" /\ pc' = "loop"
          /\ UNCHANGED error
       \/ \* the executable cannot be started: Popen raises OSError
          /\ proc' = "failed" /\ Raise("OSError from Popen")
          /\ UNCHANGED stdin
    /\ UNCHANGED << resp, url, playlist_resp, best_quality_url, best_bandwidth,
                    ts_resp, ts_files, seg_status, written, file, success,
                    exit_code, net >>

\* download_video, lines 174-180: one iteration of the segment loop
FetchSegment ==
    /\ pc = "loop"
    /\ Len(seg_status) < Len(ts_files)
    /\ LET i == Len(seg_status) + 1
       IN  /\ net' = Append(net, Req("segment", ts_files[i]))
           /\ \/ \* requests.get raises: the with block is left
                 /\ seg_status' = Append(seg_status, "error")
                 /\ error' = "Connection error" /\ pc' = "with_raise"
                 /\ UNCHANGED << ts_resp, written >>
              \/ \E status \in Statuses :
                   /\ seg_status' = Append(seg_status, IF status = 200 THEN "200" ELSE "404")
                   /\ ts_resp' = [status |-> status, text |-> <<>>]
                   /\ IF ShouldWrite(status)
                      THEN \/ /\ written' = Append(written, i)
                              /\ UNCHANGED << pc, error >>
                           \/ \* proc.stdin.write raises BrokenPipeError
                              /\ error' = "Broken pipe on write" /\ pc' = "with_raise"
                              /\ UNCHANGED written
                      ELSE UNCHANGED << pc, error, written >>
    /\ UNCHANGED << resp, url, playlist_resp, best_quality_url, best_bandwidth,
                    ts_files, proc, stdin, file, success, exit_code >>

\* download_video, line 172: leaving the with block runs Popen.__exit__, which
\* closes proc.stdin and waits for the process
PopenExit ==
    /\ \/ pc = "loop" /\ Len(seg_status) = Len(ts_files)
       \/ pc = "with_raise"
    /\ stdin' = CloseStdin(stdin)
    /\ proc' = WaitProc(proc)
    /\ file' \in MuxerOutcomes(file, written)
    /\ IF pc = "with_raise"
       THEN pc' = "except" /\ UNCHANGED error
       ELSE \/ pc' = "check" /\ UNCHANGED error
            \/ \* flushing the buffered bytes in stdin.close() raises
               /\ written # <<>>
               /\ error' = "Broken pipe on close" /\ pc' = "except"
    /\ UNCHANGED << resp, url, playlist_resp, best_quality_url, best_bandwidth,
                    ts_resp, ts_files, seg_status, written, success, exit_code,
                    net >>

\* download_video, lines 182-187
CheckOutput ==
    /\ pc = "check"
    /\ success' = OutputOk(file)
    /\ pc' = "returned"
    /\ DropLocals
    /\ UNCHANGED << seg_status, written, proc, stdin, file, error,
                    exit_code, net >>

\* download_video, lines 188-190
Except ==
    /\ pc = "except"
    /\ success' = FALSE
    /\ pc' = "returned"
    /\ DropLocals
    /\ UNCHANGED << seg_status, written, proc, stdin, file, error,
                    exit_code, net >>

\* main, lines 219-220
main_return ==
    /\ pc = "returned"
    /\ exit_code' = ExitCode(success)
    /\ pc' = "exit"
    /\ UNCHANGED << resp, url, playlist_resp, best_quality_url, best_bandwidth,
                    ts_resp, ts_files, seg_status, written, proc, stdin, file,
                    error, success, net >>

Next ==
    \/ main_page
    \/ ResolveSource
    \/ MatchEmbed
    \/ FetchPlaylist
    \/ ScanPlaylist
    \/ SelectStream
    \/ LaunchMuxer
    \/ FetchSegment
    \/ PopenExit
    \/ CheckOutput
    \/ Except
    \/ main_return

Spec == Init /\ [][Next]_vars

TypeOK ==
    /\ pc \in {"main", "resolve", "match", "playlist", "scan", "stream", "launch", "loop",
               "with_raise", "check", "except", "returned", "exit"}
    /\ proc \in {"none", "failed", "running", "exited"}
    /\ stdin \in {"none", "open", "closed"}
    /\ file \in {"absent", "empty", "nonempty"}
    /\ exit_code \in {-1, 0, 1}
    /\ success \in BOOLEAN

----------------------------------------------------------------------------
(* Properties *)

Range(q) == { q[i] : i \in 1..Len(q) }

Front(q) == SubSeq(q, 1, Len(q) - 1)

\* the indices of the segment fetches that returned HTTP 200, in order
RECURSIVE Sub200From(_, _)
Sub200From(st, i) ==
    IF i > Len(st) THEN <<>>
    ELSE IF st[i] = "200" THEN <<i>> \o Sub200From(st, i + 1)
    ELSE Sub200From(st, i + 1)

Sub200(st) == Sub200From(st, 1)

\* the muxer process was started
Launched == proc \in {"running", "exited"}

\* the with block of line 172 has been left
AfterWith == pc \in {"check", "except", "returned", "exit"}

\* a tag with a well-formed attribute list holding an integer BANDWIDTH
HasIntBandwidth(tag) ==
    /\ \A i \in 1..Len(tag.attrs) : Len(tag.attrs[i]) <= 2
    /\ \E i \in 1..Len(tag.attrs) :
         /\ Len(tag.attrs[i]) = 2
         /\ tag.attrs[i][1] = "BANDWIDTH"
         /\ IsNumeral(tag.attrs[i][2])

\* the variant lines of a text
VariantLines(text) ==
    { i \in 1..Len(text) : text[i].k = "uri" /\ text[i].ext = "m3u8" }

\* the bandwidth the tag right before variant line i carries
OwnBandwidth(text, i) == ParseBandwidth(text[i - 1]).value

\* every variant line directly follows its own tag, and the tags carry
\* distinct positive bandwidths
WellFormedMaster(text) ==
    /\ VariantLines(text) # {}
    /\ \A i \in VariantLines(text) :
         /\ i > 1
         /\ IsStreamInf(text[i - 1])
         /\ HasIntBandwidth(text[i - 1])
         /\ OwnBandwidth(text, i) > 0
    /\ \A i, j \in VariantLines(text) :
         i # j => OwnBandwidth(text, i) # OwnBandwidth(text, j)

\* the variant line whose own tag carries the greatest bandwidth
BestVariant(text) ==
    CHOOSE i \in VariantLines(text) :
        \A j \in VariantLines(text) : OwnBandwidth(text, j) <= OwnBandwidth(text, i)

\* C1: for a master playlist whose variant lines each follow their own tag with
\* a distinct positive BANDWIDTH, the scan selects the variant whose own tag has
\* the greatest bandwidth, and that variant is the one fetched next.
C1_SelectsGreatestBandwidth ==
    [][ /\ ( /\ pc = "scan"
             /\ WellFormedMaster(playlist_resp.text) )
          => /\ pc' = "stream"
             /\ best_quality_url' =
                  urljoin(url, playlist_resp.text[BestVariant(playlist_resp.text)])
        /\ (pc = "stream" /\ best_quality_url # NoUrl)
          => net' = Append(net, Req("variant", best_quality_url)) ]_vars

\* C2: a segment whose fetch does not succeed (non-200 status or transport
\* error) is skipped and every later segment is still fetched: once the loop
\* has been left without a failed write, a failed fetch implies that all
\* segments of the list were fetched.
C2_BadSegmentNeverAborts ==
    ( /\ pc \in {"with_raise", "check", "except"}
      /\ Launched
      /\ error # "Broken pipe on write" )
    => \A j \in 1..Len(seg_status) :
         seg_status[j] # "200" => Len(seg_status) = Len(ts_files)

\* C3 as stated: whenever every fetched segment returned an HTTP status, the
\* bodies written are exactly those of the segments that returned 200, in
\* order, and download_video returns true exactly when the output file is
\* non-empty after the muxer has exited.
C3_WritesAndResult ==
    ( /\ pc = "returned"
      /\ proc = "exited"
      /\ "error" \notin Range(seg_status) )
    => /\ written = Sub200(seg_status)
       /\ success <=> file = "nonempty"

\* C3, amended: the bodies written are those of the segments that returned
\* 200, in order, each once, except that a write that raises leaves its own
\* body out and ends the loop; the loop is left normally only after every
\* segment was fetched; and download_video returns true exactly when no
\* exception was raised and the output file is non-empty after the muxer has
\* exited.
C3_WritesAndResultAmended ==
    /\ Launched =>
         written = IF error = "Broken pipe on write"
                   THEN Front(Sub200(seg_status))
                   ELSE Sub200(seg_status)
    /\ pc = "check" => /\ Len(seg_status) = Len(ts_files)
                       /\ "error" \notin Range(seg_status)
    /\ pc = "returned" => (success <=> (error = "" /\ file = "nonempty"))
    /\ (pc = "returned" /\ error = "") => proc = "exited"

C3_Witness ==
    /\ pc = "returned"
    /\ success
    /\ seg_status = <<"200", "404", "200">>
    /\ written = <<1, 3>>

\* the non-comment, non-blank lines ending in .ts, in file order, resolved
\* against base
RECURSIVE MediaSegments(_, _)
MediaSegments(text, base) ==
    IF text = <<>> THEN <<>>
    ELSE IF Head(text).k = "uri" /\ Head(text).ext = "ts"
         THEN <<urljoin(base, Head(text))>> \o MediaSegments(Tail(text), base)
         ELSE MediaSegments(Tail(text), base)

\* C4: the segment list built from a media playlist text is exactly its
\* non-comment, non-blank lines ending in .ts, in file order with duplicates
\* kept, each resolved against the URL the playlist was fetched from.
C4_SegmentsAreMediaLines ==
    (pc = "launch" /\ ts_resp.status = 200)
    => ts_files = MediaSegments(ts_resp.text, net[Len(net)].url)

\* no tag of the text carries a parsable BANDWIDTH
NoParsableBandwidth(text) ==
    \A i \in 1..Len(text) : IsStreamInf(text[i]) => ~HasIntBandwidth(text[i])

\* C5: when no #EXT-X-STREAM-INF tag of the fetched playlist carries a parsable
\* BANDWIDTH, the scan does not fail and selects no variant, no variant
\* playlist is fetched, and the segment list is taken from the fetched text.
C5_UnparsableBandwidthFallsBack ==
    [][ /\ ( /\ pc = "scan"
             /\ NoParsableBandwidth(playlist_resp.text) )
          => /\ pc' = "stream"
             /\ error' = ""
             /\ best_quality_url' = NoUrl
             /\ playlist_resp' = playlist_resp
        /\ (pc = "stream" /\ best_quality_url = NoUrl)
          => /\ net' = net
             /\ ts_resp' = playlist_resp ]_vars

\* C6: main returns 0 exactly when download_video returned true, which implies
\* a non-empty output file, and 1 in every other outcome.
C6_ExitCode ==
    /\ pc = "exit" =>
         /\ exit_code \in {0, 1}
         /\ exit_code = 0 <=> success
         /\ error # "" => exit_code = 1
         /\ file # "nonempty" => exit_code = 1
    /\ success => (file = "nonempty" /\ error = "")

C6_Witness ==
    /\ pc = "exit"
    /\ exit_code = 0
    /\ success

\* C7: with zero segment URLs download_video returns false without launching
\* the muxer and without any segment fetch; the muxer is launched only after a
\* non-empty segment list has been built.
C7_NoSegmentsNoMuxer ==
    /\ (pc = "except" /\ error = "No TS files found in playlist")
         => ts_files = <<>>
    /\ error = "No TS files found in playlist"
         => /\ proc = "none"
            /\ Count("segment") = 0
            /\ ~success
    /\ pc \in {"launch", "loop", "with_raise", "check"} => ts_files # <<>>
    /\ (proc # "none" /\ pc = "except") => ts_files # <<>>
    /\ Count("segment") > 0 => proc # "none"

C7_Witness ==
    /\ pc = "returned"
    /\ error = "No TS files found in playlist"
    /\ ~success
    /\ proc = "none"

\* C8: a source URL ending in .m3u8 is fetched as the playlist without any
\* embed-page fetch; any other source is fetched once as an embed page, the
\* first .m3u8 match of its body becomes the playlist URL, and a non-200
\* status or a body without a match fails the job with no further fetch.  The
\* embed page is never fetched more than once.
C8_EmbedUnwrappedOnce ==
    [][ /\ (pc = "resolve" /\ UrlEndsWith(url, "m3u8"))
          => (net' = net /\ url' = url /\ pc' = "playlist")
        /\ (pc = "resolve" /\ ~UrlEndsWith(url, "m3u8"))
          => /\ net' = Append(net, Req("embed", url))
             /\ pc' \in {"match", "except"}
             /\ pc' = "match" => resp'.status = 200
        /\ pc = "match"
          => IF \E i \in 1..Len(resp.text) : resp.text[i].match
             THEN /\ pc' = "playlist"
                  /\ net' = net
                  /\ \E i \in 1..Len(resp.text) :
                       /\ resp.text[i].match
                       /\ \A j \in 1..(i - 1) : ~resp.text[j].match
                       /\ url' = resp.text[i].url
             ELSE pc' = "except"
        /\ pc = "playlist"
          => net' = Append(net, Req("playlist", url))
        /\ (pc = "except" /\ net[Len(net)].kind = "embed")
          => (net' = net /\ ~success' /\ pc' = "returned")
        /\ (pc \in {"returned", "exit"} /\ net[Len(net)].kind = "embed")
          => (net' = net /\ ~success')
        /\ Cardinality({ i \in 1..Len(net') : net'[i].kind = "embed" }) <= 1 ]_vars

C8_Witness ==
    /\ pc = "scan"
    /\ Count("embed") = 1
    /\ url = QueryUrl
    /\ net[Len(net)] = Req("playlist", QueryUrl)

\* C9: once the muxer has been launched, its input stream is closed and its
\* exit awaited before the with block is left on any path, so before the
\* success check and before download_video returns.
C9_MuxerClosedAndAwaited ==
    /\ (AfterWith /\ proc \notin {"none", "failed"})
         => (proc = "exited" /\ stdin = "closed")
    /\ pc = "check" => (proc = "exited" /\ stdin = "closed")
    /\ stdin = "closed" => proc # "running"

C9_Witness ==
    /\ pc = "returned"
    /\ proc = "exited"
    /\ stdin = "closed"
    /\ error = "Connection error"
    /\ Count("segment") > 0

\* C10: download_video returns true only if at least one segment body was
\* written to the muxer's input during the call.
C10_SuccessNeedsWrite ==
    (pc = "returned" /\ success) => written # <<>>

====
